---- MODULE Spec2Model ----
(***************************************************************************)
(* A model of the stripe geometry updater of Source/DataSources:           *)
(* StripeGeometryUpdater (the static path), DynamicStripeGeometryUpdater   *)
(* (the per-tick path) and the entity-side event handling that drives      *)
(* them.  An optional JavaScript value is modelled as a sequence of length *)
(* zero (undefined) or one (the value), a Property as an optional record   *)
(* of its isConstant flag and its value at every time.                     *)
(***************************************************************************)
EXTENDS Integers, Sequences, FiniteSets, TLC

\* ---------------------------------------------------------------- bounds
\* The time cursor ranges over 0..MaxTime.
MaxTime == 2
\* The number of changes made to the entity or its descriptor after construction.
MaxChanges == 1

Times == 0..MaxTime

\* Iso8601.MINIMUM_VALUE: the epoch every static sample is taken at.
MINIMUM_VALUE == 0

\* ------------------------------------------------------- optional values
None == <<>>
Some(v) == <<v>>
\* defined(x) of Core/defined.js
defined(x) == x # <<>>
Get(x) == x[1]
\* JavaScript truthiness of an optional boolean, and a && b.
Truthy(x) == defined(x) /\ Get(x) = TRUE
JsAnd(a, b) == IF Truthy(a) THEN b ELSE a

\* ------------------------------------------------------------ properties
ConstantProperty(v) == Some([isConstant |-> TRUE, f |-> [t \in Times |-> v]])
VaryingProperty(g) == Some([isConstant |-> FALSE, f |-> g])
\* property.getValue(time), for a defined property
getValue(p, t) == Get(p).f[t]
\* Property.isConstant(p): an undefined property is constant
Property_isConstant(p) == ~defined(p) \/ Get(p).isConstant
Property_getValueOrUndefined(p, t) == IF defined(p) THEN getValue(p, t) ELSE None
Property_getValueOrDefault(p, t, d) ==
  IF defined(p) /\ defined(getValue(p, t)) THEN getValue(p, t) ELSE d

\* --------------------------------------------------------------- materials
ColorMaterialProperty(colorProp) ==
  Some([kind |-> "Color", isConstant |-> Property_isConstant(colorProp), color |-> colorProp])
ImageMaterialProperty(const) ==
  Some([kind |-> "Image", isConstant |-> const, color |-> None])
\* material instanceof ColorMaterialProperty
isColorMaterial(m) == defined(m) /\ Get(m).kind = "Color"
\* Property.isConstant applied to a material property
Material_isConstant(m) == ~defined(m) \/ Get(m).isConstant
\* The material the updater falls back to: a constant opaque white colour.
defaultMaterial == ColorMaterialProperty(ConstantProperty(Some("WHITE")))
defaultShow == ConstantProperty(Some(TRUE))

\* ------------------------------------------------------ height references
HeightReferences == {"NONE", "CLAMP_TO_GROUND", "RELATIVE_TO_GROUND"}
\* GroundGeometryUpdater.CLAMP_TO_GROUND: the sentinel, distinct from every height.
CLAMP_TO_GROUND == -1

\* The height stored as sampled whatever its reference.
GeometryHeightIgnoringReference(height, heightReference) == height

\* GroundGeometryUpdater.getGeometryHeight: the height resolved against its reference.
getGeometryHeight(height, heightReference) ==
  IF ~defined(height) THEN None
  ELSE IF heightReference = Some("CLAMP_TO_GROUND") THEN Some(CLAMP_TO_GROUND)
  ELSE height

\* A defined extruded height resolved to the sentinel whatever its reference.
ExtrudedHeightAlwaysClamped(extrudedHeight, extrudedHeightReference) ==
  IF ~defined(extrudedHeight) THEN None ELSE Some(CLAMP_TO_GROUND)

\* GroundGeometryUpdater.getGeometryExtrudedHeight
getGeometryExtrudedHeight(extrudedHeight, extrudedHeightReference) ==
  IF ~defined(extrudedHeight) THEN None
  ELSE IF extrudedHeightReference = Some("CLAMP_TO_GROUND") THEN Some(CLAMP_TO_GROUND)
  ELSE extrudedHeight

\* The offset kind with a defined height counted whatever its reference.
OffsetKindForEveryHeight(height, heightReference, extrudedHeight, extrudedHeightReference) ==
  LET eRef == IF ~defined(extrudedHeight) \/ ~defined(extrudedHeightReference)
              THEN Some("NONE") ELSE extrudedHeightReference
      n == (IF defined(height) THEN 1 ELSE 0)
           + (IF eRef = Some("RELATIVE_TO_GROUND") THEN 1 ELSE 0)
  IN IF n = 2 THEN Some("ALL") ELSE IF n = 1 THEN Some("TOP") ELSE None

\* GroundGeometryUpdater.computeGeometryOffsetAttribute: undefined, TOP or ALL.
computeGeometryOffsetAttribute(height, heightReference, extrudedHeight, extrudedHeightReference) ==
  LET hRef == IF ~defined(height) \/ ~defined(heightReference) THEN Some("NONE") ELSE heightReference
      eRef == IF ~defined(extrudedHeight) \/ ~defined(extrudedHeightReference)
              THEN Some("NONE") ELSE extrudedHeightReference
      n == (IF hRef # Some("NONE") THEN 1 ELSE 0)
           + (IF eRef = Some("RELATIVE_TO_GROUND") THEN 1 ELSE 0)
  IN IF n = 2 THEN Some("ALL") ELSE IF n = 1 THEN Some("TOP") ELSE None

\* ------------------------------------------------------------------ terrain
\* StripeGeometry.computeRectangle(options): the bounding rectangle of the shape,
\* kept as the set of its centerline points and its width.
computeRectangle(options) ==
  [points |-> {Get(options.positions)[i] : i \in 1..Len(Get(options.positions))},
   width |-> Get(options.width)]
\* computeRectangle requires options.positions and options.width.
computeRectangleFails(options) == ~defined(options.positions) \/ ~defined(options.width)
\* ApproximateTerrainHeights.getMinimumMaximumHeights(rectangle).minimumTerrainHeight:
\* a fixed table, the lowest of the terrain heights 10 * p - width under the rectangle.
minimumTerrainHeight(rectangle) ==
  IF rectangle.points = {} THEN 0
  ELSE LET hs == {10 * p - rectangle.width : p \in rectangle.points}
       IN CHOOSE h \in hs : \A k \in hs : h <= k

\* --------------------------------------------------------- geometry options
\* new StripeGeometryOptions(entity): every field undefined.
StripeGeometryOptions ==
  [vertexFormat |-> None, positions |-> None, width |-> None, cornerType |-> None,
   height |-> None, extrudedHeight |-> None, granularity |-> None, offsetAttribute |-> None]

\* What a resolution pass did, besides writing the options: the instant sampled, the
\* height fed into the offset and reference resolution, whether the terrain was
\* queried, and whether the pass threw.
NoPass == [kind |-> "none", time |-> 0, heightValue |-> None, lookup |-> FALSE, error |-> FALSE]

\* --------------------------------------------------------------- the entity
\* entity.isAvailable(time): no availability means always available.
isAvailable(entity, t) == ~defined(entity.availability) \/ t \in Get(entity.availability)

\* GeometryUpdater.prototype._isHidden: the generic base-hidden predicate.
GeometryUpdater_isHidden(entity, stripe, t) ==
  \/ ~entity.isShowing
  \/ ~isAvailable(entity, t)
  \/ ~Truthy(Property_getValueOrDefault(stripe.show, t, Some(TRUE)))
  \/ ~Truthy(Property_getValueOrDefault(stripe.fill, t, Some(TRUE)))

\* _isHidden without the test of the width.
IsHiddenIgnoringWidth(entity, stripe, t) ==
  \/ ~defined(stripe.positions)
  \/ GeometryUpdater_isHidden(entity, stripe, t)

\* StripeGeometryUpdater._isHidden
_isHidden(entity, stripe, t) ==
  \/ ~defined(stripe.positions)
  \/ ~defined(stripe.width)
  \/ GeometryUpdater_isHidden(entity, stripe, t)

\* The dynamic predicate reading the descriptor's properties, as the static one does.
DynamicHiddenFromDescriptor(entity, stripe, t, options) == _isHidden(entity, stripe, t)

\* DynamicStripeGeometryUpdater._isHidden: reads the options just resolved.
Dynamic_isHidden(entity, stripe, t, options) ==
  \/ ~defined(options.positions)
  \/ ~defined(options.width)
  \/ GeometryUpdater_isHidden(entity, stripe, t)

\* _isDynamic without the test of zIndex, and without the test of outlineWidth.
IsDynamicIgnoringZIndex(stripe, onTerrain, materialProperty) ==
  \/ ~Get(stripe.positions).isConstant
  \/ ~Property_isConstant(stripe.height)
  \/ ~Property_isConstant(stripe.extrudedHeight)
  \/ ~Property_isConstant(stripe.granularity)
  \/ ~Property_isConstant(stripe.width)
  \/ ~Property_isConstant(stripe.outlineWidth)
  \/ ~Property_isConstant(stripe.cornerType)
  \/ (onTerrain /\ ~Material_isConstant(materialProperty) /\ ~isColorMaterial(materialProperty))
IsDynamicIgnoringOutlineWidth(stripe, onTerrain, materialProperty) ==
  \/ ~Get(stripe.positions).isConstant
  \/ ~Property_isConstant(stripe.height)
  \/ ~Property_isConstant(stripe.extrudedHeight)
  \/ ~Property_isConstant(stripe.granularity)
  \/ ~Property_isConstant(stripe.width)
  \/ ~Property_isConstant(stripe.cornerType)
  \/ ~Property_isConstant(stripe.zIndex)
  \/ (onTerrain /\ ~Material_isConstant(materialProperty) /\ ~isColorMaterial(materialProperty))

\* StripeGeometryUpdater._isDynamic; reads stripe.positions.isConstant directly, so it
\* is evaluated only on a descriptor whose positions property is defined.
_isDynamic(stripe, onTerrain, materialProperty) ==
  \/ ~Get(stripe.positions).isConstant
  \/ ~Property_isConstant(stripe.height)
  \/ ~Property_isConstant(stripe.extrudedHeight)
  \/ ~Property_isConstant(stripe.granularity)
  \/ ~Property_isConstant(stripe.width)
  \/ ~Property_isConstant(stripe.outlineWidth)
  \/ ~Property_isConstant(stripe.cornerType)
  \/ ~Property_isConstant(stripe.zIndex)
  \/ (onTerrain /\ ~Material_isConstant(materialProperty) /\ ~isColorMaterial(materialProperty))

\* The rule left out: an undefined height stays undefined.
HeightNotDefaulted(heightValue, extrudedHeightValue) == heightValue

\* The height after the rule of lines 239-241 and 317-319: an extrusion without a
\* base height starts at 0.
defaultedHeight(heightValue, extrudedHeightValue) ==
  IF defined(extrudedHeightValue) /\ ~defined(heightValue) THEN Some(0) ELSE heightValue

\* The last step without the terrain query: the resolved value is stored as it is.
ResolveWithoutTerrainLookup(opts, pass, extrudedHeightValue, extrudedHeightReferenceValue) ==
  [options |-> [opts EXCEPT !.extrudedHeight =
                  getGeometryExtrudedHeight(extrudedHeightValue, extrudedHeightReferenceValue)],
   pass |-> pass]

\* The last step of both passes: the extruded height resolved against its reference,
\* the sentinel replaced by the minimum terrain height under the options' rectangle.
\* opts holds every field of the pass but extrudedHeight.
resolveExtrudedHeight(opts, pass, extrudedHeightValue, extrudedHeightReferenceValue) ==
  LET eh == getGeometryExtrudedHeight(extrudedHeightValue, extrudedHeightReferenceValue)
  IN IF eh = Some(CLAMP_TO_GROUND)
     THEN IF computeRectangleFails(opts)
          THEN [options |-> opts, pass |-> [pass EXCEPT !.lookup = TRUE, !.error = TRUE]]
          ELSE [options |-> [opts EXCEPT !.extrudedHeight =
                                Some(minimumTerrainHeight(computeRectangle(opts)))],
                pass |-> [pass EXCEPT !.lookup = TRUE]]
     ELSE [options |-> [opts EXCEPT !.extrudedHeight = eh], pass |-> pass]

\* The static pass sampling at the latest time instead of the epoch.
SetStaticOptionsAtLatest(stripe, materialProperty, options) ==
  LET heightValue0 == Property_getValueOrUndefined(stripe.height, MaxTime)
      heightReferenceValue ==
        Property_getValueOrDefault(stripe.heightReference, MaxTime, Some("NONE"))
      extrudedHeightValue == Property_getValueOrUndefined(stripe.extrudedHeight, MaxTime)
      extrudedHeightReferenceValue ==
        Property_getValueOrDefault(stripe.extrudedHeightReference, MaxTime, Some("NONE"))
      heightValue == defaultedHeight(heightValue0, extrudedHeightValue)
      opts == [options EXCEPT
        !.vertexFormat = IF isColorMaterial(materialProperty)
                         THEN Some("PerInstanceColor") ELSE Some("Textured"),
        !.positions = getValue(stripe.positions, MaxTime),
        !.width = getValue(stripe.width, MaxTime),
        !.granularity = Property_getValueOrUndefined(stripe.granularity, MaxTime),
        !.cornerType = Property_getValueOrUndefined(stripe.cornerType, MaxTime),
        !.offsetAttribute = computeGeometryOffsetAttribute(
            heightValue, heightReferenceValue, extrudedHeightValue, extrudedHeightReferenceValue),
        !.height = getGeometryHeight(heightValue, heightReferenceValue)]
      pass == [kind |-> "static", time |-> MINIMUM_VALUE, heightValue |-> heightValue,
               lookup |-> FALSE, error |-> FALSE]
  IN resolveExtrudedHeight(opts, pass, extrudedHeightValue, extrudedHeightReferenceValue)

\* StripeGeometryUpdater._setStaticOptions
_setStaticOptions(stripe, materialProperty, options) ==
  LET heightValue0 == Property_getValueOrUndefined(stripe.height, MINIMUM_VALUE)
      heightReferenceValue ==
        Property_getValueOrDefault(stripe.heightReference, MINIMUM_VALUE, Some("NONE"))
      extrudedHeightValue == Property_getValueOrUndefined(stripe.extrudedHeight, MINIMUM_VALUE)
      extrudedHeightReferenceValue ==
        Property_getValueOrDefault(stripe.extrudedHeightReference, MINIMUM_VALUE, Some("NONE"))
      heightValue == defaultedHeight(heightValue0, extrudedHeightValue)
      opts == [options EXCEPT
        !.vertexFormat = IF isColorMaterial(materialProperty)
                         THEN Some("PerInstanceColor") ELSE Some("Textured"),
        !.positions = getValue(stripe.positions, MINIMUM_VALUE),
        !.width = getValue(stripe.width, MINIMUM_VALUE),
        !.granularity = Property_getValueOrUndefined(stripe.granularity, MINIMUM_VALUE),
        !.cornerType = Property_getValueOrUndefined(stripe.cornerType, MINIMUM_VALUE),
        !.offsetAttribute = computeGeometryOffsetAttribute(
            heightValue, heightReferenceValue, extrudedHeightValue, extrudedHeightReferenceValue),
        !.height = getGeometryHeight(heightValue, heightReferenceValue)]
      pass == [kind |-> "static", time |-> MINIMUM_VALUE, heightValue |-> heightValue,
               lookup |-> FALSE, error |-> FALSE]
  IN resolveExtrudedHeight(opts, pass, extrudedHeightValue, extrudedHeightReferenceValue)

\* The dynamic pass with the terrain queried under the rectangle of the options as
\* they were before the pass wrote positions and width.
SetOptionsRectangleBeforeWrite(stripe, time, options) ==
  LET heightValue0 == Property_getValueOrUndefined(stripe.height, time)
      heightReferenceValue ==
        Property_getValueOrDefault(stripe.heightReference, time, Some("NONE"))
      extrudedHeightValue == Property_getValueOrUndefined(stripe.extrudedHeight, time)
      extrudedHeightReferenceValue ==
        Property_getValueOrDefault(stripe.extrudedHeightReference, time, Some("NONE"))
      heightValue == defaultedHeight(heightValue0, extrudedHeightValue)
      opts == [options EXCEPT
        !.positions = Property_getValueOrUndefined(stripe.positions, time),
        !.width = Property_getValueOrUndefined(stripe.width, time),
        !.granularity = Property_getValueOrUndefined(stripe.granularity, time),
        !.cornerType = Property_getValueOrUndefined(stripe.cornerType, time),
        !.offsetAttribute = computeGeometryOffsetAttribute(
            heightValue, heightReferenceValue, extrudedHeightValue, extrudedHeightReferenceValue),
        !.height = getGeometryHeight(heightValue, heightReferenceValue)]
      pass == [kind |-> "dynamic", time |-> time, heightValue |-> heightValue,
               lookup |-> FALSE, error |-> FALSE]
      eh == getGeometryExtrudedHeight(extrudedHeightValue, extrudedHeightReferenceValue)
  IN IF eh = Some(CLAMP_TO_GROUND)
     THEN IF computeRectangleFails(options)
          THEN [options |-> opts, pass |-> [pass EXCEPT !.lookup = TRUE, !.error = TRUE]]
          ELSE [options |-> [opts EXCEPT !.extrudedHeight =
                                Some(minimumTerrainHeight(computeRectangle(options)))],
                pass |-> [pass EXCEPT !.lookup = TRUE]]
     ELSE [options |-> [opts EXCEPT !.extrudedHeight = eh], pass |-> pass]

\* The dynamic pass without the default of the base height under an extrusion.
SetOptionsWithoutHeightDefault(stripe, time, options) ==
  LET heightValue == Property_getValueOrUndefined(stripe.height, time)
      heightReferenceValue ==
        Property_getValueOrDefault(stripe.heightReference, time, Some("NONE"))
      extrudedHeightValue == Property_getValueOrUndefined(stripe.extrudedHeight, time)
      extrudedHeightReferenceValue ==
        Property_getValueOrDefault(stripe.extrudedHeightReference, time, Some("NONE"))
      opts == [options EXCEPT
        !.positions = Property_getValueOrUndefined(stripe.positions, time),
        !.width = Property_getValueOrUndefined(stripe.width, time),
        !.granularity = Property_getValueOrUndefined(stripe.granularity, time),
        !.cornerType = Property_getValueOrUndefined(stripe.cornerType, time),
        !.offsetAttribute = computeGeometryOffsetAttribute(
            heightValue, heightReferenceValue, extrudedHeightValue, extrudedHeightReferenceValue),
        !.height = getGeometryHeight(heightValue, heightReferenceValue)]
      pass == [kind |-> "dynamic", time |-> time, heightValue |-> heightValue,
               lookup |-> FALSE, error |-> FALSE]
  IN resolveExtrudedHeight(opts, pass, extrudedHeightValue, extrudedHeightReferenceValue)

\* The dynamic pass sampling at the epoch instead of the given time.
SetOptionsAtEpoch(stripe, time, options) ==
  LET r == _setStaticOptions(stripe, defaultMaterial, options)
  IN [options |-> [r.options EXCEPT !.vertexFormat = options.vertexFormat],
      pass |-> [r.pass EXCEPT !.kind = "dynamic", !.time = time]]

\* DynamicStripeGeometryUpdater._setOptions
_setOptions(stripe, time, options) ==
  LET heightValue0 == Property_getValueOrUndefined(stripe.height, time)
      heightReferenceValue ==
        Property_getValueOrDefault(stripe.heightReference, time, Some("NONE"))
      extrudedHeightValue == Property_getValueOrUndefined(stripe.extrudedHeight, time)
      extrudedHeightReferenceValue ==
        Property_getValueOrDefault(stripe.extrudedHeightReference, time, Some("NONE"))
      heightValue == defaultedHeight(heightValue0, extrudedHeightValue)
      opts == [options EXCEPT
        !.positions = Property_getValueOrUndefined(stripe.positions, time),
        !.width = Property_getValueOrUndefined(stripe.width, time),
        !.granularity = Property_getValueOrUndefined(stripe.granularity, time),
        !.cornerType = Property_getValueOrUndefined(stripe.cornerType, time),
        !.offsetAttribute = computeGeometryOffsetAttribute(
            heightValue, heightReferenceValue, extrudedHeightValue, extrudedHeightReferenceValue),
        !.height = getGeometryHeight(heightValue, heightReferenceValue)]
      pass == [kind |-> "dynamic", time |-> time, heightValue |-> heightValue,
               lookup |-> FALSE, error |-> FALSE]
  IN resolveExtrudedHeight(opts, pass, extrudedHeightValue, extrudedHeightReferenceValue)

\* ------------------------------------------------------- a failing sampler
\* What a sample stands for when property.getValue(time) throws instead of
\* returning: neither undefined nor a value.
Failed == <<"RuntimeError", "getValue">>
\* p.getValue(t) throws.
Fails(p, t) == defined(p) /\ getValue(p, t) = Failed
\* A property that throws when sampled at time k and has the value v otherwise, and
\* one that throws at every time although it reports itself constant.
FailingAt(v, k) == VaryingProperty([t \in Times |-> IF t = k THEN Failed ELSE Some(v)])
FailingAlways == ConstantProperty(Failed)
\* The pass as a throwing sampler leaves it: the options written so far.
Interrupted(kind, t, written) ==
  [options |-> written,
   pass |-> [kind |-> kind, time |-> t, heightValue |-> None, lookup |-> FALSE, error |-> TRUE],
   thrown |-> "RuntimeError"]
\* A pass that ran to its end or threw in the terrain query.
Returned(r) ==
  [options |-> r.options, pass |-> r.pass,
   thrown |-> IF r.pass.error THEN "DeveloperError" ELSE "none"]

\* A call of _setStaticOptions, lines 220-280 in statement order: the four height
\* samples are taken before anything is written, then vertexFormat, positions, width,
\* granularity and cornerType are written one by one; no statement catches.
setStaticOptionsCall(stripe, materialProperty, options) ==
  LET t == MINIMUM_VALUE
      w0 == [options EXCEPT !.vertexFormat = IF isColorMaterial(materialProperty)
                                             THEN Some("PerInstanceColor") ELSE Some("Textured")]
      w1 == [w0 EXCEPT !.positions = getValue(stripe.positions, t)]
      w2 == [w1 EXCEPT !.width = getValue(stripe.width, t)]
      w3 == [w2 EXCEPT !.granularity = Property_getValueOrUndefined(stripe.granularity, t)]
  IN IF \/ Fails(stripe.height, t) \/ Fails(stripe.heightReference, t)
        \/ Fails(stripe.extrudedHeight, t) \/ Fails(stripe.extrudedHeightReference, t)
     THEN Interrupted("static", t, options)
     ELSE IF Fails(stripe.positions, t) THEN Interrupted("static", t, w0)
     ELSE IF Fails(stripe.width, t) THEN Interrupted("static", t, w1)
     ELSE IF Fails(stripe.granularity, t) THEN Interrupted("static", t, w2)
     ELSE IF Fails(stripe.cornerType, t) THEN Interrupted("static", t, w3)
     ELSE Returned(_setStaticOptions(stripe, materialProperty, options))

\* A call of _setOptions that catches what a sampler throws and returns.
SetOptionsCallSwallowing(stripe, t, options) ==
  IF \E f \in {"height", "heightReference", "extrudedHeight", "extrudedHeightReference",
                "positions", "width", "granularity", "cornerType"} : Fails(stripe[f], t)
  THEN [Interrupted("dynamic", t, options) EXCEPT !.thrown = "none"]
  ELSE Returned(_setOptions(stripe, t, options))

\* A call of _setOptions, lines 300-347 in statement order: the four height samples
\* first, then positions, width, granularity and cornerType written one by one.
setOptionsCall(stripe, t, options) ==
  LET w1 == [options EXCEPT !.positions = Property_getValueOrUndefined(stripe.positions, t)]
      w2 == [w1 EXCEPT !.width = Property_getValueOrUndefined(stripe.width, t)]
      w3 == [w2 EXCEPT !.granularity = Property_getValueOrUndefined(stripe.granularity, t)]
  IN IF \/ Fails(stripe.height, t) \/ Fails(stripe.heightReference, t)
        \/ Fails(stripe.extrudedHeight, t) \/ Fails(stripe.extrudedHeightReference, t)
        \/ Fails(stripe.positions, t)
     THEN Interrupted("dynamic", t, options)
     ELSE IF Fails(stripe.width, t) THEN Interrupted("dynamic", t, w1)
     ELSE IF Fails(stripe.granularity, t) THEN Interrupted("dynamic", t, w2)
     ELSE IF Fails(stripe.cornerType, t) THEN Interrupted("dynamic", t, w3)
     ELSE Returned(_setOptions(stripe, t, options))

\* ------------------------------------------------------------ the instance
\* What an operation returned or threw.  kind is "none" (nothing was built),
\* "instance", "DeveloperError" (the precondition violation), "Error" (the
\* unsupported-feature signal) or "TypeError" (a member of undefined was read);
\* calls lists the updater methods the operation ran, in order.
NoResult(op, calls) ==
  [op |-> op, calls |-> calls, kind |-> "none", time |-> None, instance |-> None,
   center |-> None]
Thrown(op, calls, kind, time) ==
  [op |-> op, calls |-> calls, kind |-> kind, time |-> time, instance |-> None,
   center |-> None]

\* The terrain-offset property the ground updater binds: the offset at time t.
TerrainOffsetProperty == VaryingProperty([t \in Times |-> Some(10 + t)])
\* Cartesian3.ZERO
defaultOffset == Some(0)
\* Color.WHITE
WHITE == Some("WHITE")

\* The show attribute sampled at the epoch instead of the call's time.
ShowAttributeAtEpoch(time, entity, upd) ==
  JsAnd(JsAnd(JsAnd(Some(isAvailable(entity, time)), Some(entity.isShowing)),
              getValue(upd.showProperty, MINIMUM_VALUE)),
        getValue(upd.fillProperty, MINIMUM_VALUE))

\* Lines 85-92: the value of the && chain handed to the show attribute.
showAttribute(time, entity, upd) ==
  JsAnd(JsAnd(JsAnd(Some(isAvailable(entity, time)), Some(entity.isShowing)),
              getValue(upd.showProperty, time)),
        getValue(upd.fillProperty, time))

\* The colour sampled whether or not the entity is available.
ColorAttributeIgnoringAvailability(time, entity, upd) ==
  LET colorProp == Get(upd.materialProperty).color
      currentColor == IF defined(colorProp) THEN getValue(colorProp, time) ELSE None
  IN IF isColorMaterial(upd.materialProperty)
     THEN (IF defined(currentColor) THEN currentColor ELSE WHITE)
     ELSE None

\* The colour attribute set for every material, white when it has no colour.
ColorAttributeForEveryMaterial(time, entity, upd) ==
  LET colorProp == IF isColorMaterial(upd.materialProperty)
                   THEN Get(upd.materialProperty).color ELSE None
      currentColor == IF defined(colorProp)
                         /\ (Get(colorProp).isConstant \/ isAvailable(entity, time))
                      THEN getValue(colorProp, time) ELSE None
  IN IF defined(currentColor) THEN currentColor ELSE WHITE

\* Lines 99-114: the colour attribute, set for a ColorMaterialProperty only.
colorAttribute(time, entity, upd) ==
  LET colorProp == Get(upd.materialProperty).color
      currentColor == IF defined(colorProp)
                         /\ (Get(colorProp).isConstant \/ isAvailable(entity, time))
                      THEN getValue(colorProp, time) ELSE None
  IN IF isColorMaterial(upd.materialProperty)
     THEN (IF defined(currentColor) THEN currentColor ELSE WHITE)
     ELSE None

\* The offset attribute set whatever the options' offset kind.
OffsetAttributeAlways(time, upd, options) ==
  Property_getValueOrDefault(upd.terrainOffsetProperty, time, defaultOffset)

\* Lines 115-124: the offset attribute, set when the options carry an offset kind.
offsetAttribute(time, upd, options) ==
  IF defined(options.offsetAttribute)
  THEN Property_getValueOrDefault(upd.terrainOffsetProperty, time, defaultOffset)
  ELSE None

\* Lines 125-129: the instance, its geometry built from this._options.
fillInstance(time, entity, upd, options) ==
  [geometry |-> options,
   show |-> showAttribute(time, entity, upd),
   distanceDisplayCondition |-> getValue(upd.distanceDisplayConditionProperty, time),
   color |-> colorAttribute(time, entity, upd),
   offset |-> offsetAttribute(time, upd, options)]

\* Lines 85-109: one of the samples taken for the attributes throws.  show is
\* sampled when the entity is available and showing, fill when show held too, the
\* colour when the material is a plain colour whose colour property is constant or
\* the entity is available.
attributeSamplerFails(time, entity, upd) ==
  LET reached == isAvailable(entity, time) /\ entity.isShowing
      colorProp == Get(upd.materialProperty).color
  IN \/ reached /\ Fails(upd.showProperty, time)
     \/ reached /\ ~Fails(upd.showProperty, time)
          /\ Truthy(getValue(upd.showProperty, time)) /\ Fails(upd.fillProperty, time)
     \/ Fails(upd.distanceDisplayConditionProperty, time)
     \/ /\ isColorMaterial(upd.materialProperty)
        /\ defined(colorProp)
        /\ (Get(colorProp).isConstant \/ isAvailable(entity, time))
        /\ Fails(colorProp, time)

\* createFillGeometryInstance without the test of _fillEnabled.
CreateFillWithoutFillCheck(op, calls, time, entity, upd, options) ==
  IF ~defined(time)
  THEN Thrown(op, calls, "DeveloperError", time)
  ELSE IF ~defined(upd.distanceDisplayConditionProperty)
  THEN Thrown(op, Append(calls, "createFillGeometryInstance"), "TypeError", time)
  ELSE [op |-> op, calls |-> Append(calls, "createFillGeometryInstance"), kind |-> "instance",
        time |-> time, instance |-> Some(fillInstance(Get(time), entity, upd, options)),
        center |-> None]

\* StripeGeometryUpdater.createFillGeometryInstance(time): throws DeveloperError when
\* time is undefined or fill is not enabled; an updater whose properties were never
\* bound reads a member of undefined; a sampler that throws is not caught; otherwise
\* the instance is built.
createFillGeometryInstance(op, calls, time, entity, upd, options) ==
  IF ~defined(time) \/ ~upd.fillEnabled
  THEN Thrown(op, calls, "DeveloperError", time)
  ELSE IF ~defined(upd.distanceDisplayConditionProperty)
  THEN Thrown(op, Append(calls, "createFillGeometryInstance"), "TypeError", time)
  ELSE IF attributeSamplerFails(Get(time), entity, upd)
  THEN Thrown(op, Append(calls, "createFillGeometryInstance"), "RuntimeError", time)
  ELSE [op |-> op, calls |-> Append(calls, "createFillGeometryInstance"), kind |-> "instance",
        time |-> time, instance |-> Some(fillInstance(Get(time), entity, upd, options)),
        center |-> None]

\* The outline call throwing the precondition violation of the fill call.
CreateOutlineThrowingDeveloperError(time) ==
  Thrown("createOutlineGeometryInstance", <<>>, "DeveloperError", time)

\* StripeGeometryUpdater.createOutlineGeometryInstance(time): always throws a plain Error.
createOutlineGeometryInstance(time) ==
  Thrown("createOutlineGeometryInstance", <<>>, "Error", time)

\* The center as the first point of the centerline.
CenterAsFirstPoint(stripe, time) ==
  LET positions == Property_getValueOrUndefined(stripe.positions, time)
  IN IF ~defined(positions) \/ Len(Get(positions)) = 0
     THEN None
     ELSE Some(Get(positions)[1])

\* StripeGeometryUpdater._computeCenter(time): the point at the zero-based index
\* floor(length / 2) of the positions sampled at time, or nothing.
_computeCenter(stripe, time) ==
  LET positions == Property_getValueOrUndefined(stripe.positions, time)
  IN IF ~defined(positions) \/ Len(Get(positions)) = 0
     THEN None
     ELSE Some(Get(positions)[(Len(Get(positions)) \div 2) + 1])

\* ------------------------------------------------------------- the updater
\* The updater as its base constructor leaves it, before the first change event.
NewUpdater ==
  [fillEnabled |-> FALSE, outlineEnabled |-> FALSE, dynamic |-> FALSE, onTerrain |-> FALSE,
   materialProperty |-> None, showProperty |-> None, fillProperty |-> None,
   distanceDisplayConditionProperty |-> None, terrainOffsetProperty |-> None]

\* observedPropertyNames of the constructor, line 56
observedPropertyNames == {"availability", "stripe"}

\* Entity.supportsMaterialsforEntitiesOnTerrain(scene): the scene can texture the
\* terrain.
supportsMaterialsforEntitiesOnTerrain == TRUE

\* GroundGeometryUpdater._isOnTerrain: filled, with neither height nor extrusion.
_isOnTerrain(stripe, fillEnabled) ==
  fillEnabled /\ ~defined(stripe.height) /\ ~defined(stripe.extrudedHeight)

\* What the change handler binds from the descriptor before it asks for the mode.
boundFillEnabled(stripe) ==
  IF defined(stripe.fill) /\ Get(stripe.fill).isConstant
  THEN Truthy(getValue(stripe.fill, MINIMUM_VALUE)) ELSE TRUE
boundMaterial(stripe) == IF defined(stripe.material) THEN stripe.material ELSE defaultMaterial
boundOnTerrain(stripe) ==
  _isOnTerrain(stripe, boundFillEnabled(stripe))
  /\ (supportsMaterialsforEntitiesOnTerrain \/ isColorMaterial(boundMaterial(stripe)))

\* The properties the change handler binds from the descriptor before it asks for
\* the mode; top is the terrain-offset property the ground updater binds.
bindProperties(stripe, top, upd) ==
  LET outlineEnabled0 == IF defined(stripe.outline) /\ Get(stripe.outline).isConstant
                         THEN Truthy(getValue(stripe.outline, MINIMUM_VALUE))
                         ELSE defined(stripe.outline)
      onTerrain == boundOnTerrain(stripe)
  IN [upd EXCEPT
        !.materialProperty = boundMaterial(stripe),
        !.fillProperty = IF defined(stripe.fill) THEN stripe.fill ELSE defaultShow,
        !.showProperty = IF defined(stripe.show) THEN stripe.show ELSE defaultShow,
        !.distanceDisplayConditionProperty =
           IF defined(stripe.distanceDisplayCondition)
           THEN stripe.distanceDisplayCondition ELSE ConstantProperty(None),
        !.terrainOffsetProperty = top,
        !.fillEnabled = boundFillEnabled(stripe),
        !.onTerrain = onTerrain,
        !.outlineEnabled = outlineEnabled0 /\ ~onTerrain]

\* _onEntityPropertyChanged of the base updaters, as the constructor (line 65) and
\* every later change event run it at time t: a hidden shape only loses its fill;
\* otherwise the bound properties are refreshed, the mode is re-evaluated and a static
\* shape is resolved at the epoch.  top is the terrain-offset property the ground
\* updater binds, if the scene has it bind one.  _isDynamic reads
\* stripe.positions.isConstant and _setStaticOptions calls stripe.width.getValue:
\* reached with the property undefined, each throws a TypeError.  A static pass
\* that throws in the terrain query leaves the handler before _dynamic is assigned.
onEntityPropertyChanged(entity, stripe, t, scene, upd, options, pass) ==
  LET top == IF scene.bindsTerrainOffset THEN TerrainOffsetProperty ELSE None
      materialProperty == boundMaterial(stripe)
      onTerrain == boundOnTerrain(stripe)
      bound == bindProperties(stripe, top, upd)
  IN IF _isHidden(entity, stripe, t)
     THEN [upd |-> [upd EXCEPT !.fillEnabled = FALSE, !.outlineEnabled = FALSE,
                               !.terrainOffsetProperty = top],
           options |-> options, pass |-> pass, kind |-> "none", calls |-> <<"isHidden">>]
     ELSE IF ~defined(stripe.positions)
     THEN [upd |-> bound, options |-> options, pass |-> pass, kind |-> "TypeError",
           calls |-> <<"isHidden", "isDynamic">>]
     ELSE IF _isDynamic(stripe, onTerrain, materialProperty)
     THEN [upd |-> [bound EXCEPT !.dynamic = TRUE],
           options |-> options, pass |-> pass, kind |-> "none",
           calls |-> <<"isHidden", "isDynamic">>]
     ELSE IF ~defined(stripe.width)
     THEN [upd |-> bound,
           options |-> [options EXCEPT
              !.vertexFormat = IF isColorMaterial(materialProperty)
                               THEN Some("PerInstanceColor") ELSE Some("Textured"),
              !.positions = getValue(stripe.positions, MINIMUM_VALUE)],
           pass |-> pass, kind |-> "TypeError",
           calls |-> <<"isHidden", "isDynamic", "setStaticOptions">>]
     ELSE LET r == _setStaticOptions(stripe, materialProperty, options)
          IN IF r.pass.error
             THEN [upd |-> bound, options |-> r.options, pass |-> r.pass,
                   kind |-> "DeveloperError",
                   calls |-> <<"isHidden", "isDynamic", "setStaticOptions">>]
             ELSE [upd |-> [bound EXCEPT !.dynamic = FALSE],
                   options |-> r.options, pass |-> r.pass, kind |-> "none",
                   calls |-> <<"isHidden", "isDynamic", "setStaticOptions">>]

\* The dynamic isHidden reaches a sample that throws: show is sampled when the
\* options are ready and the entity is showing and available, fill when show held.
hiddenSamplerFails(entity, stripe, t, options) ==
  /\ defined(options.positions) /\ defined(options.width)
  /\ entity.isShowing /\ isAvailable(entity, t)
  /\ \/ Fails(stripe.show, t)
     \/ /\ Truthy(Property_getValueOrDefault(stripe.show, t, Some(TRUE)))
        /\ Fails(stripe.fill, t)

\* DynamicGeometryUpdater.update(time): resolve the options at time, let whatever
\* the pass throws pass through, stop when the shape is hidden, and otherwise derive the vertex format from the material and
\* build the fill instance from the options just resolved.
dynamicUpdate(entity, stripe, t, upd, options) ==
  LET r == setOptionsCall(stripe, t, options)
      vf == [r.options EXCEPT !.vertexFormat =
               IF isColorMaterial(upd.materialProperty)
               THEN Some("PerInstanceColor") ELSE Some("Textured")]
  IN IF r.thrown # "none"
     THEN [options |-> r.options, pass |-> r.pass,
           result |-> Thrown("update", <<"setOptions">>, r.thrown, Some(t))]
     ELSE IF hiddenSamplerFails(entity, stripe, t, r.options)
     THEN [options |-> r.options, pass |-> r.pass,
           result |-> Thrown("update", <<"setOptions", "isHidden">>, "RuntimeError", Some(t))]
     ELSE IF Dynamic_isHidden(entity, stripe, t, r.options)
     THEN [options |-> r.options, pass |-> r.pass,
           result |-> [NoResult("update", <<"setOptions", "isHidden">>) EXCEPT !.time = Some(t)]]
     ELSE [options |-> vf, pass |-> r.pass,
           result |-> createFillGeometryInstance("update", <<"setOptions", "isHidden">>,
                                                 Some(t), entity, upd, vf)]

\* ------------------------------------------------------------- descriptors
Fields ==
  {"show", "positions", "width", "height", "heightReference", "extrudedHeight",
   "extrudedHeightReference", "cornerType", "granularity", "fill", "material",
   "outline", "outlineWidth", "zIndex", "distanceDisplayCondition"}

\* new StripeGraphics(): no field assigned.
EmptyStripe == [f \in Fields |-> None]

\* Time-varying samples: a value at every time, or a gap at every time 1 mod 3.
Sampled(g(_)) == VaryingProperty([t \in Times |-> Some(g(t))])
Gapped(g(_)) == VaryingProperty([t \in Times |-> IF t % 3 = 1 THEN None ELSE Some(g(t))])
Even(t) == t % 2 = 0
Third(t) == t % 3 = 0
Plus1(t) == t + 1
Plus4(t) == t + 4
Line(t) == <<t + 1, t + 2>>
RefAt(t) == IF t % 3 = 0 THEN "RELATIVE_TO_GROUND"
            ELSE IF t % 3 = 1 THEN "CLAMP_TO_GROUND" ELSE "NONE"
CornerAt(t) == IF Even(t) THEN "MITERED" ELSE "BEVELED"
ColorAt(t) == IF Even(t) THEN "BLUE" ELSE "RED"

\* The values a change event may assign to each field of the descriptor.
Catalog(f) ==
  CASE f = "show" -> {None, ConstantProperty(Some(FALSE)), Gapped(Third)}
    [] f = "fill" -> {None, ConstantProperty(Some(FALSE)), Sampled(Even)}
    [] f = "positions" -> {None, ConstantProperty(Some(<<1, 2, 3>>)), Gapped(Line)}
    [] f = "width" ->
         {None, ConstantProperty(Some(2)), Gapped(Plus1), ConstantProperty(None)}
    [] f = "height" -> {None, ConstantProperty(Some(7)), Gapped(Plus1)}
    [] f = "heightReference" ->
         {None, ConstantProperty(Some("CLAMP_TO_GROUND")), Sampled(RefAt)}
    [] f = "extrudedHeight" -> {None, ConstantProperty(Some(5)), Gapped(Plus4)}
    [] f = "extrudedHeightReference" ->
         {None, ConstantProperty(Some("CLAMP_TO_GROUND")), Sampled(RefAt)}
    [] f = "cornerType" -> {None, Sampled(CornerAt)}
    [] f = "granularity" -> {None, Sampled(Plus1)}
    [] f = "material" ->
         {None, ColorMaterialProperty(None), ColorMaterialProperty(Gapped(ColorAt)),
          ImageMaterialProperty(TRUE), ImageMaterialProperty(FALSE)}
    [] f = "outline" -> {None, ConstantProperty(Some(TRUE))}
    [] f = "outlineWidth" -> {None, Sampled(Plus1)}
    [] f = "zIndex" -> {None, Sampled(Plus1)}
    [] f = "distanceDisplayCondition" -> {None}

\* A stripe on the terrain: a constant centerline and width, nothing else.
OnTerrain ==
  [EmptyStripe EXCEPT !["positions"] = ConstantProperty(Some(<<1, 2, 3>>)),
                      !["width"] = ConstantProperty(Some(2))]
\* Scenario A of the spec: a constant stripe at an absolute height.
ScenarioA ==
  [OnTerrain EXCEPT !["height"] = ConstantProperty(Some(0)),
                    !["heightReference"] = ConstantProperty(Some("NONE")),
                    !["distanceDisplayCondition"] = ConstantProperty(Some(<<1, 9>>))]
\* Both heights relative to the ground, in a colour that varies.
Relative ==
  [OnTerrain EXCEPT !["height"] = ConstantProperty(Some(7)),
                    !["heightReference"] = ConstantProperty(Some("RELATIVE_TO_GROUND")),
                    !["extrudedHeight"] = ConstantProperty(Some(5)),
                    !["extrudedHeightReference"] = ConstantProperty(Some("RELATIVE_TO_GROUND")),
                    !["material"] = ColorMaterialProperty(Gapped(ColorAt))]
\* A stripe whose centerline moves, with time-varying heights and references.
Moving ==
  [OnTerrain EXCEPT !["positions"] = Gapped(Line),
                    !["extrudedHeight"] = Gapped(Plus4),
                    !["extrudedHeightReference"] = Sampled(RefAt)]
\* A time-varying stripe that is not shown.
Unshown ==
  [OnTerrain EXCEPT !["show"] = ConstantProperty(Some(FALSE)),
                    !["height"] = Gapped(Plus1)]
\* A textured stripe on the terrain whose material and visibility vary.
Textured ==
  [OnTerrain EXCEPT !["material"] = ImageMaterialProperty(FALSE),
                    !["show"] = Gapped(Third),
                    !["fill"] = Sampled(Even)]
\* An extruded stripe whose extrusion is clamped to the ground.
Clamped ==
  [OnTerrain EXCEPT !["extrudedHeight"] = ConstantProperty(Some(5)),
                    !["extrudedHeightReference"] = ConstantProperty(Some("CLAMP_TO_GROUND"))]
InitialStripes ==
  {EmptyStripe, OnTerrain, ScenarioA, Relative, Moving, Unshown, Textured, Clamped}

\* entity.availability: unset, or every third time from the epoch on.
Availabilities == {None, Some({t \in Times : Third(t)})}
Scenes == [bindsTerrainOffset : BOOLEAN]

\* ----------------------------------------------------------- StripeGraphics
\* The 18 properties of StripeGraphics, in the order merge and clone assign them.
GraphicsFieldSeq ==
  <<"show", "positions", "width", "height", "heightReference", "extrudedHeight",
    "extrudedHeightReference", "cornerType", "granularity", "fill", "material",
    "outline", "outlineColor", "outlineWidth", "shadows", "distanceDisplayCondition",
    "classificationType", "zIndex">>
GraphicsFields == {GraphicsFieldSeq[i] : i \in DOMAIN GraphicsFieldSeq}

\* Core/defaultValue.js: a unless it is undefined, then b.
defaultValue(a, b) == IF defined(a) THEN a ELSE b

\* A StripeGraphics object: its identity and its 18 properties, each unset or a
\* Property, which is kept by reference.
NoFields == [f \in GraphicsFields |-> None]
NewStripeGraphics(id) == [id |-> id, fields |-> NoFields]

\* merge with the source's value preferred over the target's.
MergeOverwriting(this, source) ==
  [this EXCEPT !.fields = [f \in GraphicsFields |->
                             defaultValue(source.fields[f], this.fields[f])]]

\* StripeGraphics.merge(source): the object after the 18 assignments.
merge(this, source) ==
  [this EXCEPT !.fields =
     [show |-> defaultValue(this.fields.show, source.fields.show),
      positions |-> defaultValue(this.fields.positions, source.fields.positions),
      width |-> defaultValue(this.fields.width, source.fields.width),
      height |-> defaultValue(this.fields.height, source.fields.height),
      heightReference |-> defaultValue(this.fields.heightReference, source.fields.heightReference),
      extrudedHeight |-> defaultValue(this.fields.extrudedHeight, source.fields.extrudedHeight),
      extrudedHeightReference |-> defaultValue(this.fields.extrudedHeightReference, source.fields.extrudedHeightReference),
      cornerType |-> defaultValue(this.fields.cornerType, source.fields.cornerType),
      granularity |-> defaultValue(this.fields.granularity, source.fields.granularity),
      fill |-> defaultValue(this.fields.fill, source.fields.fill),
      material |-> defaultValue(this.fields.material, source.fields.material),
      outline |-> defaultValue(this.fields.outline, source.fields.outline),
      outlineColor |-> defaultValue(this.fields.outlineColor, source.fields.outlineColor),
      outlineWidth |-> defaultValue(this.fields.outlineWidth, source.fields.outlineWidth),
      shadows |-> defaultValue(this.fields.shadows, source.fields.shadows),
      distanceDisplayCondition |-> defaultValue(this.fields.distanceDisplayCondition, source.fields.distanceDisplayCondition),
      classificationType |-> defaultValue(this.fields.classificationType, source.fields.classificationType),
      zIndex |-> defaultValue(this.fields.zIndex, source.fields.zIndex)]]

\* clone that keeps a property of result where this has none.
CloneKeepingAssigned(this, result, freshId) ==
  IF ~defined(result)
  THEN merge(NewStripeGraphics(freshId), this)
  ELSE [Get(result) EXCEPT !.fields = merge(this, Get(result)).fields]

\* StripeGraphics.clone(result): the object returned, a new StripeGraphics(this)
\* when no result is given and otherwise result after the 18 assignments.
clone(this, result, freshId) ==
  IF ~defined(result)
  THEN merge(NewStripeGraphics(freshId), this)
  ELSE [Get(result) EXCEPT !.fields =
     [show |-> this.fields.show,
      positions |-> this.fields.positions,
      width |-> this.fields.width,
      height |-> this.fields.height,
      heightReference |-> this.fields.heightReference,
      extrudedHeight |-> this.fields.extrudedHeight,
      extrudedHeightReference |-> this.fields.extrudedHeightReference,
      cornerType |-> this.fields.cornerType,
      granularity |-> this.fields.granularity,
      fill |-> this.fields.fill,
      material |-> this.fields.material,
      outline |-> this.fields.outline,
      outlineColor |-> this.fields.outlineColor,
      outlineWidth |-> this.fields.outlineWidth,
      shadows |-> this.fields.shadows,
      distanceDisplayCondition |-> this.fields.distanceDisplayCondition,
      classificationType |-> this.fields.classificationType,
      zIndex |-> this.fields.zIndex]]

\* The property objects a StripeGraphics of the pool with number k holds: none, or
\* one of two properties of its own, by the position of the field.
PoolFields(k) ==
  [f \in GraphicsFields |->
     LET i == CHOOSE j \in DOMAIN GraphicsFieldSeq : GraphicsFieldSeq[j] = f
     IN IF k = 0 THEN None
        ELSE IF (i + k) % 3 = 0 THEN None
        ELSE IF (i + k) % 3 = 1 THEN Some(10 * k) ELSE Some(10 * k + i)]
GraphicsPool == {PoolFields(k) : k \in 0..4}
\* No merge or clone has run.
NoGraphicsOp == [op |-> "none", given |-> FALSE, before |-> NoFields]

\* -------------------------------------------------------------------- state
VARIABLES stripe, entity, scene, time, upd, options, pass, last, nChanges
\* Three StripeGraphics objects (the receiver of merge and clone, the source of merge
\* and the result given to clone), what the last clone returned, and the last call.
VARIABLES target, source, result, returned, glast

graphicsVars == <<target, source, result, returned, glast>>
vars == <<stripe, entity, scene, time, upd, options, pass, last, nChanges,
          target, source, result, returned, glast>>

\* The three StripeGraphics objects as constructed without options, no call made.
GraphicsIdle ==
  /\ target = NewStripeGraphics(1)
  /\ source = NewStripeGraphics(2)
  /\ result = NewStripeGraphics(3)
  /\ returned = None
  /\ glast = NoGraphicsOp

\* The updater right after its constructor, which runs the change handler once.
Init ==
  /\ stripe \in InitialStripes
  /\ entity = [isShowing |-> TRUE, availability |-> None]
  /\ scene \in Scenes
  /\ time = 0
  /\ nChanges = 0
  /\ LET h == onEntityPropertyChanged(entity, stripe, time, scene, NewUpdater,
                                      StripeGeometryOptions, NoPass)
     IN /\ upd = h.upd
        /\ options = h.options
        /\ pass = h.pass
        /\ last = [NoResult("constructor", h.calls) EXCEPT !.time = Some(time), !.kind = h.kind]
  /\ GraphicsIdle

\* The handler run on the changed entity e and descriptor s.
Handle(e, s) ==
  LET h == onEntityPropertyChanged(e, s, time, scene, upd, options, pass)
  IN /\ upd' = h.upd
     /\ options' = h.options
     /\ pass' = h.pass
     /\ last' = [NoResult("changed", h.calls) EXCEPT !.time = Some(time), !.kind = h.kind]

\* A field of entity.stripe is assigned: the observed property "stripe" changed.
StripeChanged ==
  /\ nChanges < MaxChanges
  /\ "stripe" \in observedPropertyNames
  /\ \E f \in Fields : \E v \in Catalog(f) :
       /\ v # stripe[f]
       /\ stripe' = [stripe EXCEPT ![f] = v]
       /\ Handle(entity, stripe')
  /\ nChanges' = nChanges + 1
  /\ UNCHANGED <<entity, scene, time, graphicsVars>>

\* entity.availability is assigned: the observed property "availability" changed.
AvailabilityChanged ==
  /\ nChanges < MaxChanges
  /\ "availability" \in observedPropertyNames
  /\ \E av \in Availabilities :
       /\ av # entity.availability
       /\ entity' = [entity EXCEPT !.availability = av]
       /\ Handle(entity', stripe)
  /\ nChanges' = nChanges + 1
  /\ UNCHANGED <<stripe, scene, time, graphicsVars>>

\* entity.show toggles: "isShowing" is not an observed property, the handler returns
\* at once.
ShowingChanged ==
  /\ nChanges < MaxChanges
  /\ "isShowing" \notin observedPropertyNames
  /\ entity' = [entity EXCEPT !.isShowing = ~entity.isShowing]
  /\ last' = [NoResult("changed", <<>>) EXCEPT !.time = Some(time)]
  /\ nChanges' = nChanges + 1
  /\ UNCHANGED <<stripe, scene, time, upd, options, pass, graphicsVars>>

\* A scene update that re-resolves every filled shape at time t, static ones too.
UpdateResolvingEveryShape ==
  \E t \in Times :
    /\ t >= time
    /\ time' = t
    /\ IF upd.fillEnabled
       THEN LET d == dynamicUpdate(entity, stripe, t, upd, options)
            IN options' = d.options /\ pass' = d.pass /\ last' = d.result
       ELSE /\ last' = [NoResult("update", <<>>) EXCEPT !.time = Some(t)]
            /\ UNCHANGED <<options, pass>>
    /\ UNCHANGED <<stripe, entity, scene, upd, nChanges, graphicsVars>>

\* One scene update at time t: a dynamic shape is re-resolved and rebuilt, a static
\* one has its fill instance built from the options resolved at the last change.
Update ==
  \E t \in Times :
    /\ t >= time
    /\ time' = t
    /\ IF upd.fillEnabled /\ upd.dynamic
       THEN LET d == dynamicUpdate(entity, stripe, t, upd, options)
            IN options' = d.options /\ pass' = d.pass /\ last' = d.result
       ELSE IF upd.fillEnabled
       THEN /\ last' = createFillGeometryInstance("update", <<>>, Some(t), entity, upd, options)
            /\ UNCHANGED <<options, pass>>
       ELSE /\ last' = [NoResult("update", <<>>) EXCEPT !.time = Some(t)]
            /\ UNCHANGED <<options, pass>>
    /\ UNCHANGED <<stripe, entity, scene, upd, nChanges, graphicsVars>>

\* A direct call of createFillGeometryInstance, with the scene time or without a time.
CreateFillGeometryInstance ==
  /\ \E t \in {None, Some(time)} :
       last' = createFillGeometryInstance("createFillGeometryInstance", <<>>, t,
                                          entity, upd, options)
  /\ UNCHANGED <<stripe, entity, scene, time, upd, options, pass, nChanges, graphicsVars>>

\* A direct call of createOutlineGeometryInstance, with the scene time or without a time.
CreateOutlineGeometryInstance ==
  /\ \E t \in {None, Some(time)} :
       last' = createOutlineGeometryInstance(t)
  /\ UNCHANGED <<stripe, entity, scene, time, upd, options, pass, nChanges, graphicsVars>>

\* A call of _computeCenter with the scene time.
ComputeCenter ==
  /\ last' = [NoResult("computeCenter", <<>>) EXCEPT
                !.kind = "center", !.time = Some(time),
                !.center = _computeCenter(stripe, time)]
  /\ UNCHANGED <<stripe, entity, scene, time, upd, options, pass, nChanges, graphicsVars>>

\* A call of the updater's _isHidden (lines 58-64) at the scene time: a pure
\* predicate, its answer kept in the kind of the result.
IsHidden ==
  /\ last' = [NoResult("isHidden", <<"isHidden">>) EXCEPT
                !.kind = IF _isHidden(entity, stripe, time) THEN "hidden" ELSE "shown",
                !.time = Some(time)]
  /\ UNCHANGED <<stripe, entity, scene, time, upd, options, pass, nChanges, graphicsVars>>

Next ==
  \/ StripeChanged
  \/ AvailabilityChanged
  \/ ShowingChanged
  \/ Update
  \/ CreateFillGeometryInstance
  \/ CreateOutlineGeometryInstance

Spec == Init /\ [][Next]_vars

\* The centerlines _computeCenter is applied to: unset, of no, one, two or three
\* points, and one that has no sample at some times.
Centerlines ==
  Catalog("positions") \cup {ConstantProperty(Some(<<>>)), ConstantProperty(Some(<<6>>))}
\* A static stripe whose height reference and visibility differ between the epoch
\* and later times.
Swaying ==
  [Relative EXCEPT !["heightReference"] = Sampled(RefAt), !["show"] = Gapped(Third)]
CenterStripes ==
  {[s EXCEPT !["positions"] = c] : s \in InitialStripes \cup {Swaying}, c \in Centerlines}

\* An updater constructed on a stripe with one of these centerlines.
CenterInit ==
  /\ stripe \in CenterStripes
  /\ entity = [isShowing |-> TRUE, availability |-> None]
  /\ scene = [bindsTerrainOffset |-> FALSE]
  /\ time = 0
  /\ nChanges = 0
  /\ LET h == onEntityPropertyChanged(entity, stripe, time, scene, NewUpdater,
                                      StripeGeometryOptions, NoPass)
     IN /\ upd = h.upd
        /\ options = h.options
        /\ pass = h.pass
        /\ last = [NoResult("constructor", h.calls) EXCEPT !.time = Some(time), !.kind = h.kind]
  /\ GraphicsIdle

\* No change event occurs: the scene advances, and _computeCenter,
\* createFillGeometryInstance and _isHidden are called.
CenterNext ==
  \/ Update
  \/ ComputeCenter
  \/ CreateFillGeometryInstance
  \/ IsHidden

CenterSpec == CenterInit /\ [][CenterNext]_vars

\* The updater of an entity without a stripe, left alone.
UpdaterIdle ==
  /\ stripe = EmptyStripe
  /\ entity = [isShowing |-> TRUE, availability |-> None]
  /\ scene = [bindsTerrainOffset |-> FALSE]
  /\ time = 0
  /\ nChanges = 0
  /\ upd = NewUpdater
  /\ options = StripeGeometryOptions
  /\ pass = NoPass
  /\ last = NoResult("constructor", <<>>)
updaterVars == <<stripe, entity, scene, time, upd, options, pass, last, nChanges>>

\* Three StripeGraphics objects with properties drawn from the pool.
GraphicsInit ==
  /\ UpdaterIdle
  /\ \E t \in GraphicsPool : target = [id |-> 1, fields |-> t]
  /\ \E s \in GraphicsPool : source = [id |-> 2, fields |-> s]
  /\ \E r \in GraphicsPool : result = [id |-> 3, fields |-> r]
  /\ returned = None
  /\ glast = NoGraphicsOp

\* target.merge(source)
Merge ==
  /\ target' = merge(target, source)
  /\ glast' = [op |-> "merge", given |-> TRUE, before |-> target.fields]
  /\ UNCHANGED <<source, result, returned, updaterVars>>

\* target.clone(result): result is assigned in place and returned.
CloneInto ==
  /\ result' = clone(target, Some(result), 4)
  /\ returned' = Some(result')
  /\ glast' = [op |-> "clone", given |-> TRUE, before |-> result.fields]
  /\ UNCHANGED <<target, source, updaterVars>>

\* target.clone(): a new object is returned.
CloneNew ==
  /\ returned' = Some(clone(target, None, 4))
  /\ glast' = [op |-> "clone", given |-> FALSE, before |-> NoFields]
  /\ UNCHANGED <<target, source, result, updaterVars>>

GraphicsNext ==
  \/ Merge
  \/ CloneInto
  \/ CloneNew

GraphicsSpec == GraphicsInit /\ [][GraphicsNext]_vars

\* ------------------------------------------------- the passes on their own
\* Scenario D of the spec: an extrusion without a base height, no reference set.
ScenarioD == [OnTerrain EXCEPT !["extrudedHeight"] = ConstantProperty(Some(5))]
\* A base height clamped to the ground, and one relative to it under an absolute
\* extrusion.
ClampedHeight ==
  [OnTerrain EXCEPT !["height"] = ConstantProperty(Some(7)),
                    !["heightReference"] = ConstantProperty(Some("CLAMP_TO_GROUND"))]
RelativeBase ==
  [ScenarioD EXCEPT !["height"] = ConstantProperty(Some(7)),
                    !["heightReference"] = ConstantProperty(Some("RELATIVE_TO_GROUND")),
                    !["extrudedHeightReference"] = ConstantProperty(Some("NONE"))]
\* A moving stripe whose heights and references all vary; its centerline is defined
\* at every time.
Sinking ==
  [OnTerrain EXCEPT !["positions"] = Sampled(Line),
                    !["height"] = Gapped(Plus1),
                    !["heightReference"] = Sampled(RefAt),
                    !["extrudedHeight"] = ConstantProperty(Some(5)),
                    !["extrudedHeightReference"] = Sampled(RefAt),
                    !["granularity"] = Sampled(Plus1),
                    !["cornerType"] = Sampled(CornerAt)]
\* A moving stripe whose centerline has gaps under an extrusion clamped at times.
Gaps ==
  [Sinking EXCEPT !["positions"] = Gapped(Line), !["height"] = None,
                  !["heightReference"] = None]
\* Descriptors one of whose samplers throws: the width, the height, the granularity
\* or the colour at time 2, and a static one whose granularity throws at every time.
FailingWidth == [Sinking EXCEPT !["width"] = FailingAt(2, 2)]
FailingHeight == [Sinking EXCEPT !["height"] = FailingAt(7, 2)]
FailingGranularity == [Sinking EXCEPT !["granularity"] = FailingAt(1, 2)]
FailingShow == [Sinking EXCEPT !["show"] = FailingAt(TRUE, 2)]
FailingColor == [Sinking EXCEPT !["material"] = ColorMaterialProperty(FailingAt("BLUE", 2))]
FailingStatic == [ScenarioD EXCEPT !["granularity"] = FailingAlways]
\* A stripe every sample of which varies with time and is at each even time what it
\* is at the epoch: no base height, an extrusion clamped at the even times.
LineBack(t) == Line(t % 2)
WidthBack(t) == 2 + (t % 2)
RefBack(t) == IF Even(t) THEN "CLAMP_TO_GROUND" ELSE "NONE"
Returning ==
  [OnTerrain EXCEPT !["positions"] = Sampled(LineBack),
                    !["width"] = Sampled(WidthBack),
                    !["height"] = None,
                    !["heightReference"] = None,
                    !["extrudedHeight"] = Sampled(WidthBack),
                    !["extrudedHeightReference"] = Sampled(RefBack),
                    !["granularity"] = Sampled(WidthBack),
                    !["cornerType"] = Sampled(CornerAt)]
ResolveStripes ==
  InitialStripes \cup {ScenarioD, ClampedHeight, RelativeBase, Sinking, Gaps, FailingWidth,
                       FailingHeight, FailingGranularity, FailingShow, FailingColor,
                       FailingStatic, Returning}

\* What the options record may hold before a pass: nothing, or what another pass
\* has left in every field.
Leftover ==
  [vertexFormat |-> Some("Textured"), positions |-> Some(<<9>>), width |-> Some(9),
   cornerType |-> Some("ROUNDED"), height |-> Some(9), extrudedHeight |-> Some(9),
   granularity |-> Some(9), offsetAttribute |-> Some("ALL")]
PriorOptions == {StripeGeometryOptions, Leftover}

\* The updater of a descriptor as the change handler binds it: unbound and without
\* fill for a hidden shape, in the mode _isDynamic gives otherwise.
ResolveUpdater(e, s) ==
  IF _isHidden(e, s, MINIMUM_VALUE)
  THEN NewUpdater
  ELSE [bindProperties(s, None, NewUpdater) EXCEPT
          !.dynamic = _isDynamic(s, boundOnTerrain(s), boundMaterial(s))]

\* An updater before a pass, its options record holding nothing or leftovers.
ResolveInit ==
  /\ stripe \in ResolveStripes
  /\ entity = [isShowing |-> TRUE, availability |-> None]
  /\ scene = [bindsTerrainOffset |-> FALSE]
  /\ time = 0
  /\ nChanges = 0
  /\ upd = ResolveUpdater(entity, stripe)
  /\ options \in PriorOptions
  /\ pass = NoPass
  /\ last = NoResult("constructor", <<>>)
  /\ GraphicsIdle

\* What a call of a pass returned or threw.
PassResult(op, r, t) ==
  [NoResult(op, <<op>>) EXCEPT !.kind = r.thrown, !.time = Some(t)]

\* A call of _setStaticOptions on a descriptor that has positions and width, the
\* only ones the change handler runs it on.
SetStaticOptions ==
  /\ defined(stripe.positions) /\ defined(stripe.width)
  /\ LET r == setStaticOptionsCall(stripe, upd.materialProperty, options)
     IN /\ options' = r.options
        /\ pass' = r.pass
        /\ last' = PassResult("setStaticOptions", r, MINIMUM_VALUE)
  /\ UNCHANGED <<stripe, entity, scene, time, upd, nChanges, graphicsVars>>

\* A call of _setOptions at any time.
SetOptions ==
  /\ \E t \in Times :
       LET r == setOptionsCall(stripe, t, options)
       IN /\ options' = r.options
          /\ pass' = r.pass
          /\ last' = PassResult("setOptions", r, t)
  /\ UNCHANGED <<stripe, entity, scene, time, upd, nChanges, graphicsVars>>

\* A scene update of a dynamic shape.
Tick ==
  /\ upd.fillEnabled /\ upd.dynamic
  /\ Update

ResolveNext ==
  \/ SetStaticOptions
  \/ SetOptions
  \/ Tick

ResolveSpec == ResolveInit /\ [][ResolveNext]_vars

\* ------------------------------------------------------------------- claims
\* The last operation was the change handler (the constructor's call included).
HandlerRan == last.op \in {"constructor", "changed"} /\ last.calls # <<>>
\* The last operation ran the named method.
Called(name) == \E i \in DOMAIN last.calls : last.calls[i] = name
\* The last operation returned an instance; Inst is that instance, CallTime its time.
BuiltInstance == last.kind = "instance"
Inst == Get(last.instance)
CallTime == Get(last.time)
\* A property's sample as a condition: an unset property counts as true.
SampleOrTrue(p, t) == IF defined(p) THEN Truthy(getValue(p, t)) ELSE TRUE
\* The mode the claims expect of a descriptor: one of the eight geometry properties
\* varies, or a varying material that is no plain colour lies on the terrain.
ExpectedDynamic(s, onTerrain, m) ==
  \/ \E f \in {"positions", "height", "extrudedHeight", "granularity", "width",
               "outlineWidth", "cornerType", "zIndex"} :
       defined(s[f]) /\ ~Get(s[f]).isConstant
  \/ (onTerrain /\ defined(m) /\ ~Get(m).isConstant /\ Get(m).kind # "Color")
\* A property's sample with the default true for an unset property or undefined sample.
SampleDefaultTrue(p, t) ==
  IF defined(p) /\ defined(getValue(p, t)) THEN Get(getValue(p, t)) = TRUE ELSE TRUE
\* The shape is hidden at time t: not ready, or hidden by the entity, show or fill.
ExpectedHidden(e, s, t) ==
  \/ ~defined(s.positions) \/ ~defined(s.width)
  \/ ~e.isShowing \/ ~isAvailable(e, t)
  \/ ~SampleDefaultTrue(s.show, t) \/ ~SampleDefaultTrue(s.fill, t)

\* C1: a descriptor without positions or without width is hidden, whatever show,
\* fill and the entity's availability and showing state are; the change handler
\* stops at isHidden and leaves the fill disabled.
C1_HiddenWithoutPositionsOrWidth ==
  (~defined(stripe.positions) \/ ~defined(stripe.width)) =>
    /\ \A sh \in BOOLEAN, av \in Availabilities, t \in Times :
         _isHidden([isShowing |-> sh, availability |-> av], stripe, t)
    /\ HandlerRan => (last.calls = <<"isHidden">> /\ last.kind = "none" /\ ~upd.fillEnabled)
\* C1's case: the width is unset on an otherwise visible shape and the handler ran.
C1_Witness ==
  /\ HandlerRan
  /\ defined(stripe.positions) /\ ~defined(stripe.width)
  /\ ~GeometryUpdater_isHidden(entity, stripe, time)
  /\ ~upd.fillEnabled

\* C2: isDynamic is true iff one of positions, height, extrudedHeight, granularity,
\* width, outlineWidth, cornerType, zIndex is not constant, or the shape is on the
\* terrain with a varying material that is no plain colour; the mode the handler sets
\* is that value, so a varying show, fill, reference or plain colour alone leaves the
\* shape static.
C2_IsDynamicIffNonConstant ==
  /\ defined(stripe.positions) =>
       \A onTerrain \in BOOLEAN :
         _isDynamic(stripe, onTerrain, boundMaterial(stripe))
           <=> ExpectedDynamic(stripe, onTerrain, boundMaterial(stripe))
  /\ (HandlerRan /\ Called("isDynamic") /\ last.kind = "none") =>
       (upd.dynamic <=> ExpectedDynamic(stripe, upd.onTerrain, upd.materialProperty))
\* C2's case: the handler evaluated isDynamic on a shape whose show property varies,
\* and the shape stayed static.
C2_Witness ==
  /\ HandlerRan /\ Called("isDynamic")
  /\ ~Property_isConstant(stripe.show)
  /\ ~upd.dynamic

C4_HiddenBeforeResolveBeforeBuild ==
  /\ \A i, j \in DOMAIN last.calls :
       /\ (last.calls[i] \in {"isHidden", "isDynamic"}
           /\ last.calls[j] \in {"setStaticOptions", "setOptions"}) => i < j
       /\ (last.calls[i] \in {"setStaticOptions", "setOptions"}
           /\ last.calls[j] = "createFillGeometryInstance") => i < j
  /\ (last.op = "update" /\ BuiltInstance) =>
       Inst.geometry =
         IF upd.dynamic
         THEN [_setOptions(stripe, CallTime, StripeGeometryOptions).options EXCEPT
                 !.vertexFormat = IF isColorMaterial(boundMaterial(stripe))
                                  THEN Some("PerInstanceColor") ELSE Some("Textured")]
         ELSE _setStaticOptions(stripe, boundMaterial(stripe), StripeGeometryOptions).options

\* C5: createFillGeometryInstance called while fill is disabled throws DeveloperError,
\* returns no instance and leaves the options and the updater as they were.
C5_FillDisabledThrows ==
  [][(last'.op = "createFillGeometryInstance" /\ ~upd.fillEnabled) =>
       /\ last'.kind = "DeveloperError"
       /\ last'.instance = None
       /\ options' = options /\ upd' = upd /\ pass' = pass]_vars
\* C5's case (Scenario B): fill is the constant false and the call was made with a time.
C5_Witness ==
  /\ last.op = "createFillGeometryInstance" /\ defined(last.time)
  /\ stripe.fill = ConstantProperty(Some(FALSE))
  /\ defined(stripe.positions) /\ defined(stripe.width)
  /\ ~upd.fillEnabled
  /\ last.kind = "DeveloperError"

C7_ShowAttributeAtCallTime ==
  BuiltInstance =>
    (Truthy(Inst.show) <=>
       /\ isAvailable(entity, CallTime)
       /\ entity.isShowing
       /\ SampleOrTrue(stripe.show, CallTime)
       /\ SampleOrTrue(stripe.fill, CallTime))
\* C7's case: a static shape whose show property holds at the epoch and not at the
\* call's time; the attribute does not hold.
C7_Witness ==
  /\ BuiltInstance /\ ~upd.dynamic
  /\ defined(stripe.show)
  /\ Truthy(getValue(stripe.show, MINIMUM_VALUE))
  /\ ~Truthy(getValue(stripe.show, CallTime))
  /\ isAvailable(entity, CallTime) /\ entity.isShowing
  /\ ~Truthy(Inst.show)

\* C8: a built instance has a colour attribute iff the material is a plain colour;
\* it is the colour sampled at the call's time when the colour property is constant
\* or the entity is available then, and white otherwise, also when the colour
\* property is unset or its sample undefined.
C8_ColorAttribute ==
  BuiltInstance =>
    LET m == boundMaterial(stripe)
        cp == Get(m).color
    IN /\ defined(Inst.color) <=> Get(m).kind = "Color"
       /\ Get(m).kind = "Color" =>
            Inst.color =
              IF /\ defined(cp)
                 /\ (Get(cp).isConstant \/ isAvailable(entity, CallTime))
                 /\ defined(getValue(cp, CallTime))
              THEN getValue(cp, CallTime) ELSE WHITE
\* C8's case: the colour varies and has a sample other than white at the call's time,
\* the entity is not available then, and the attribute is white.
C8_Witness ==
  /\ BuiltInstance
  /\ isColorMaterial(stripe.material)
  /\ defined(Get(stripe.material).color)
  /\ ~Get(Get(stripe.material).color).isConstant
  /\ defined(getValue(Get(stripe.material).color, CallTime))
  /\ getValue(Get(stripe.material).color, CallTime) # WHITE
  /\ ~isAvailable(entity, CallTime)
  /\ Inst.color = WHITE

\* C9: a built instance has an offset attribute iff the options carry an offset
\* kind; it is the terrain-offset property sampled at the call's time, or the zero
\* vector when that property is undefined.
C9_OffsetAttribute ==
  BuiltInstance =>
    /\ defined(Inst.offset) <=> defined(options.offsetAttribute)
    /\ defined(Inst.offset) =>
         Inst.offset = IF defined(upd.terrainOffsetProperty)
                       THEN getValue(upd.terrainOffsetProperty, CallTime)
                       ELSE defaultOffset
\* C9's case: the options carry an offset kind and the attribute is the sampled,
\* non-zero terrain offset.
C9_Witness ==
  /\ BuiltInstance
  /\ defined(options.offsetAttribute)
  /\ defined(upd.terrainOffsetProperty)
  /\ Inst.offset = Some(10 + CallTime)

\* The last operation ran a resolution pass to its end or to the terrain lookup.
PassRan == (Called("setStaticOptions") \/ Called("setOptions")) /\ last.kind # "TypeError"
\* C10: in a resolution pass, static or dynamic, a defined extrudedHeight with an
\* undefined height makes the height fed into the offset kind and the reference
\* resolution 0; with extrudedHeight undefined an undefined height stays undefined.
C10_HeightDefaultsToZero ==
  PassRan =>
    LET t == pass.time
        h == Property_getValueOrUndefined(stripe.height, t)
        e == Property_getValueOrUndefined(stripe.extrudedHeight, t)
        hr == Property_getValueOrDefault(stripe.heightReference, t, Some("NONE"))
    IN /\ t = IF Called("setStaticOptions") THEN MINIMUM_VALUE ELSE CallTime
       /\ (defined(e) /\ ~defined(h)) =>
            /\ pass.heightValue = Some(0)
            /\ hr # Some("CLAMP_TO_GROUND") => options.height = Some(0)
            /\ hr = Some("RELATIVE_TO_GROUND") => defined(options.offsetAttribute)
       /\ (~defined(e) /\ ~defined(h)) =>
            /\ pass.heightValue = None
            /\ options.height = None
\* C10's case: a static pass on an extrusion without a base height stored height 0.
C10_Witness ==
  /\ PassRan /\ pass.kind = "static"
  /\ defined(Property_getValueOrUndefined(stripe.extrudedHeight, MINIMUM_VALUE))
  /\ ~defined(stripe.height)
  /\ options.height = Some(0)

\* The extruded height of the descriptor at the instant of the last pass, resolved
\* against its reference.
ResolvedExtrudedHeight ==
  getGeometryExtrudedHeight(
    Property_getValueOrUndefined(stripe.extrudedHeight, pass.time),
    Property_getValueOrDefault(stripe.extrudedHeightReference, pass.time, Some("NONE")))
\* The bounding rectangle of the descriptor's positions and width at the instant of
\* the last pass.
RectangleAtPass ==
  LET ps == Get(Property_getValueOrUndefined(stripe.positions, pass.time))
  IN [points |-> {ps[i] : i \in DOMAIN ps},
      width |-> Get(Property_getValueOrUndefined(stripe.width, pass.time))]
\* C11: the sentinel is never stored in options.extrudedHeight; after a pass, static
\* or dynamic, whose resolved extrudedHeight is the sentinel and whose terrain query
\* returned, options.extrudedHeight is the minimum terrain height under the rectangle
\* of the positions and width that pass stored.
C11_ClampedExtrusionIsTerrainMinimum ==
  /\ options.extrudedHeight # Some(CLAMP_TO_GROUND)
  /\ (PassRan /\ ~pass.error /\ ResolvedExtrudedHeight = Some(CLAMP_TO_GROUND)) =>
       /\ pass.lookup
       /\ options.positions = Property_getValueOrUndefined(stripe.positions, pass.time)
       /\ options.width = Property_getValueOrUndefined(stripe.width, pass.time)
       /\ options.extrudedHeight = Some(minimumTerrainHeight(RectangleAtPass))
\* C11's case: a dynamic pass after the epoch resolved a clamped extrusion.
C11_Witness ==
  /\ PassRan /\ ~pass.error /\ pass.kind = "dynamic" /\ pass.time # MINIMUM_VALUE
  /\ ResolvedExtrudedHeight = Some(CLAMP_TO_GROUND)
  /\ options.extrudedHeight = Some(minimumTerrainHeight(RectangleAtPass))

\* The positions of the descriptor at the time of the last call.
PositionsAtCall == Property_getValueOrUndefined(stripe.positions, CallTime)
\* C12: computeCenter(time) returns nothing when the positions sampled at time are
\* undefined or empty, and otherwise the point at the zero-based index
\* floor(length / 2): the only point of one, the second of two and of three.
C12_CenterIsMiddlePoint ==
  last.op = "computeCenter" =>
    IF ~defined(PositionsAtCall) \/ Get(PositionsAtCall) = <<>>
    THEN last.center = None
    ELSE LET ps == Get(PositionsAtCall)
         IN /\ last.center = Some(ps[(Len(ps) \div 2) + 1])
            /\ Len(ps) = 1 => last.center = Some(ps[1])
            /\ Len(ps) \in {2, 3} => last.center = Some(ps[2])
\* C12's case: the center of two points is the second point, not their average.
C12_Witness ==
  /\ last.op = "computeCenter"
  /\ defined(PositionsAtCall)
  /\ Len(Get(PositionsAtCall)) = 2
  /\ last.center = Some(Get(PositionsAtCall)[2])
  /\ 2 * Get(last.center) # Get(PositionsAtCall)[1] + Get(PositionsAtCall)[2]

\* Positions or width have no value at time t: the property is unset or its sample
\* is undefined.
NotReadyAt(t) ==
  \/ ~defined(Property_getValueOrUndefined(stripe.positions, t))
  \/ ~defined(Property_getValueOrUndefined(stripe.width, t))
\* C13: when positions or width is undefined at the sampled instant (the epoch for a
\* static shape, the tick's time for a dynamic one), construction, a change event and
\* a tick raise no exception and produce no geometry instance.
C13_NotReadyIsNeverAnError ==
  (/\ last.op \in {"constructor", "changed", "update"}
   /\ NotReadyAt(IF upd.dynamic THEN CallTime ELSE MINIMUM_VALUE))
    => last.kind = "none"

\* The samples of the descriptor at time t that a resolution pass reads.
SampleAt(f, t) == Property_getValueOrUndefined(stripe[f], t)
ReferenceAt(f, t) == Property_getValueOrDefault(stripe[f], t, Some("NONE"))
\* Step 1 of the resolution at time t: the base height, 0 for a bare extrusion.
BaseHeightAt(t) ==
  IF defined(SampleAt("extrudedHeight", t)) /\ ~defined(SampleAt("height", t))
  THEN Some(0) ELSE SampleAt("height", t)
\* Steps 4 and 5 at time t: the extruded height against its reference, the sentinel
\* replaced by the minimum terrain height under the shape sampled at t.
ExtrudedHeightAt(t) ==
  LET e == getGeometryExtrudedHeight(SampleAt("extrudedHeight", t),
                                     ReferenceAt("extrudedHeightReference", t))
  IN IF e = Some(CLAMP_TO_GROUND)
     THEN Some(minimumTerrainHeight(
                 [points |-> {Get(SampleAt("positions", t))[i] :
                                 i \in DOMAIN Get(SampleAt("positions", t))},
                  width |-> Get(SampleAt("width", t))]))
     ELSE e
\* The fields of the options a pass at time t resolves before the extruded height.
ResolvedBeforeExtrusionAt(t) ==
  /\ options.positions = SampleAt("positions", t)
  /\ options.width = SampleAt("width", t)
  /\ options.granularity = SampleAt("granularity", t)
  /\ options.cornerType = SampleAt("cornerType", t)
  /\ options.offsetAttribute =
       computeGeometryOffsetAttribute(BaseHeightAt(t), ReferenceAt("heightReference", t),
                                      SampleAt("extrudedHeight", t),
                                      ReferenceAt("extrudedHeightReference", t))
  /\ options.height = getGeometryHeight(BaseHeightAt(t), ReferenceAt("heightReference", t))
\* The geometry fields of the options a pass at time t resolves from the descriptor.
GeometryFieldsAt(t) ==
  /\ ResolvedBeforeExtrusionAt(t)
  /\ options.extrudedHeight = ExtrudedHeightAt(t)

\* C14: a static pass samples height, heightReference, extrudedHeight,
\* extrudedHeightReference, positions, width, granularity and cornerType at the
\* epoch, whatever the scene time is, and the instance a tick builds of a static
\* shape carries the options resolved at the epoch.
C14_StaticPassSamplesAtEpoch ==
  /\ (Called("setStaticOptions") /\ last.kind = "none") =>
       (pass.kind = "static" /\ pass.time = MINIMUM_VALUE /\ GeometryFieldsAt(MINIMUM_VALUE))
  /\ (last.op = "update" /\ ~upd.dynamic /\ BuiltInstance /\ ~pass.error) =>
       (GeometryFieldsAt(MINIMUM_VALUE) /\ Inst.geometry = options)
\* C14's case: a static pass run after the epoch on a height reference that differs
\* between the epoch and the scene time; the offset kind is the epoch's.
C14_Witness ==
  /\ Called("setStaticOptions") /\ last.kind = "none"
  /\ CallTime # MINIMUM_VALUE
  /\ defined(SampleAt("height", MINIMUM_VALUE))
  /\ ReferenceAt("heightReference", CallTime) = Some("NONE")
  /\ ReferenceAt("heightReference", MINIMUM_VALUE) = Some("RELATIVE_TO_GROUND")
  /\ defined(options.offsetAttribute)

\* C15: a dynamic pass samples every field at the tick's time and resolves height,
\* extrusion and offset kind as the static pass does, so that positions, width,
\* granularity, cornerType, height, extrudedHeight and the offset kind of the options
\* are those of the descriptor at that time; a pass that throws in the terrain query
\* has stored all of them but the extruded height.
C15_DynamicPassSamplesAtTime ==
  Called("setOptions") =>
    /\ pass.kind = "dynamic" /\ pass.time = CallTime
    /\ IF pass.error
       THEN ResolvedBeforeExtrusionAt(CallTime)
       ELSE GeometryFieldsAt(CallTime)
\* C15's case: a dynamic pass after the epoch stored positions that differ from the
\* positions at the epoch.
C15_Witness ==
  /\ Called("setOptions") /\ ~pass.error
  /\ CallTime # MINIMUM_VALUE
  /\ defined(options.positions)
  /\ options.positions = SampleAt("positions", CallTime)
  /\ options.positions # SampleAt("positions", MINIMUM_VALUE)

\* The generic hidden predicate at time t: the entity is not showing or not
\* available, or show or fill is false.
BaseHiddenAt(t) ==
  \/ ~entity.isShowing \/ ~isAvailable(entity, t)
  \/ ~SampleDefaultTrue(stripe.show, t) \/ ~SampleDefaultTrue(stripe.fill, t)
\* C16: the dynamic isHidden is true whenever positions or width of the current
\* options is undefined, also when the descriptor's properties are set, and is the
\* generic hidden predicate otherwise; a tick builds an instance iff it is false.
C16_DynamicHiddenReadsOptions ==
  /\ Dynamic_isHidden(entity, stripe, time, [options EXCEPT !.positions = None])
  /\ Dynamic_isHidden(entity, stripe, time, [options EXCEPT !.width = None])
  /\ (defined(options.positions) /\ defined(options.width)) =>
       (Dynamic_isHidden(entity, stripe, time, options) <=> BaseHiddenAt(time))
  /\ (last.op = "update" /\ Called("isHidden")) =>
       /\ last.kind \in {"none", "instance"}
       /\ last.kind = "none" <=>
            \/ ~defined(options.positions) \/ ~defined(options.width)
            \/ BaseHiddenAt(CallTime)
\* C16's case: the positions and width properties are set and nothing else hides the
\* shape, but the positions resolved at the tick's time are undefined: the tick
\* builds nothing.
C16_Witness ==
  /\ last.op = "update" /\ Called("isHidden")
  /\ defined(stripe.positions) /\ defined(stripe.width)
  /\ ~defined(options.positions)
  /\ ~BaseHiddenAt(CallTime)
  /\ last.kind = "none"

\* C17: after target.merge(source) each of the 18 fields of the target is its value
\* before the call if that was defined and the source's value otherwise; the source
\* is not modified, and merging the same source once more changes nothing.
C17_MergeFillsUnassigned ==
  [][glast'.op = "merge" =>
       /\ \A f \in GraphicsFields :
            target'.fields[f] = IF target.fields[f] # None
                                THEN target.fields[f] ELSE source.fields[f]
       /\ target'.id = target.id
       /\ source' = source
       /\ merge(target', source') = target']_vars
\* C17's case: the merge kept a field assigned on the target although the source
\* holds another property there, and took a field unset on the target from the source.
C17_Witness ==
  /\ glast.op = "merge"
  /\ \E f \in GraphicsFields :
       /\ glast.before[f] # None /\ source.fields[f] # None
       /\ glast.before[f] # source.fields[f]
       /\ target.fields[f] = glast.before[f]
  /\ \E f \in GraphicsFields :
       /\ glast.before[f] = None /\ source.fields[f] # None
       /\ target.fields[f] = source.fields[f]

\* C18: target.clone(result) assigns each of the 18 fields of result the target's
\* value, an undefined one too, and returns result; target.clone() returns a new
\* object whose 18 fields are the target's; the target is unchanged in both cases.
C18_CloneCopiesEveryField ==
  [][glast'.op = "clone" =>
       /\ target' = target
       /\ returned' # None
       /\ \A f \in GraphicsFields : Get(returned').fields[f] = target.fields[f]
       /\ IF glast'.given
          THEN Get(returned') = result' /\ result'.id = result.id
          ELSE Get(returned').id \notin {target.id, source.id, result.id}
               /\ result' = result]_vars
\* C18's case: clone overwrote a field assigned on result with the target's undefined.
C18_Witness ==
  /\ glast.op = "clone" /\ glast.given
  /\ \E f \in GraphicsFields :
       /\ glast.before[f] # None
       /\ target.fields[f] = None
       /\ result.fields[f] = None
  /\ returned = Some(result)

\* The vertex format of the material the descriptor holds.
VertexFormatOfMaterial ==
  IF Get(boundMaterial(stripe)).kind = "Color" THEN Some("PerInstanceColor") ELSE Some("Textured")
\* C19: after every resolution pass, static or dynamic, every field of the options,
\* vertexFormat included, is resolved from the descriptor and the material at the
\* instant of that pass; none is left from an earlier pass.
C19_OptionsNeverStale ==
  (Called("setStaticOptions") \/ Called("setOptions")) =>
    /\ options.vertexFormat = VertexFormatOfMaterial
    /\ ~pass.error
    /\ GeometryFieldsAt(pass.time)

\* C20: the options record belongs to one updater and nothing resolved is carried
\* over a mode switch: a dynamic updater that has not run a pass of its own since the
\* switch from Static holds no value the static updater resolved.
C20_OptionsOwnedByOneUpdater ==
  (upd.dynamic /\ pass.kind = "static") => options = StripeGeometryOptions

\* Every property of the descriptor is constant, the height is defined and both
\* references are NONE or unset.
ConstantAtAbsoluteHeight ==
  /\ \A f \in Fields : Property_isConstant(stripe[f])
  /\ defined(SampleAt("height", MINIMUM_VALUE))
  /\ ReferenceAt("heightReference", MINIMUM_VALUE) = Some("NONE")
  /\ ReferenceAt("extrudedHeightReference", MINIMUM_VALUE) = Some("NONE")
\* C21 (Scenario A): for a descriptor whose properties are all constant, with a
\* defined height and both references NONE, isDynamic is false and the handler leaves
\* the shape static, the static pass stores no offset kind, and an instance built at
\* any time with show and fill true on an available, showing entity has a true show
\* attribute and no offset attribute.
C21_ScenarioA ==
  ConstantAtAbsoluteHeight =>
    /\ defined(stripe.positions) =>
         ~_isDynamic(stripe, boundOnTerrain(stripe), boundMaterial(stripe))
    /\ (HandlerRan /\ Called("isDynamic")) => ~upd.dynamic
    /\ (Called("setStaticOptions") /\ last.kind = "none") => options.offsetAttribute = None
    /\ (/\ BuiltInstance
        /\ isAvailable(entity, CallTime) /\ entity.isShowing
        /\ SampleOrTrue(stripe.show, CallTime) /\ SampleOrTrue(stripe.fill, CallTime)) =>
         (Inst.show = Some(TRUE) /\ Inst.offset = None /\ Inst.geometry.offsetAttribute = None)
\* C21's case: the stripe of Scenario A (three points, width 2, height 0, reference
\* NONE) stayed static through an update after the epoch, which built an instance
\* shown and without offset.
C21_Witness ==
  /\ stripe.positions = ConstantProperty(Some(<<1, 2, 3>>))
  /\ stripe.width = ConstantProperty(Some(2))
  /\ stripe.height = ConstantProperty(Some(0))
  /\ stripe.heightReference = ConstantProperty(Some("NONE"))
  /\ ConstantAtAbsoluteHeight
  /\ last.op = "update" /\ BuiltInstance /\ CallTime # MINIMUM_VALUE
  /\ ~upd.dynamic
  /\ options.offsetAttribute = None
  /\ Inst.show = Some(TRUE) /\ Inst.offset = None

\* The last operation ran a resolution pass, static or dynamic, to its end.
ResolvedPass == (Called("setStaticOptions") \/ Called("setOptions")) /\ ~pass.error
\* C22 (Scenario D): a pass that samples a defined extrudedHeight, an undefined
\* height and both references NONE (set or defaulted) stores height 0 and the
\* sampled extrudedHeight unchanged, and queries no terrain height.
C22_ScenarioD ==
  (/\ ResolvedPass
   /\ defined(SampleAt("extrudedHeight", pass.time))
   /\ ~defined(SampleAt("height", pass.time))
   /\ ReferenceAt("heightReference", pass.time) = Some("NONE")
   /\ ReferenceAt("extrudedHeightReference", pass.time) = Some("NONE")) =>
    /\ options.height = Some(0)
    /\ options.extrudedHeight = SampleAt("extrudedHeight", pass.time)
    /\ ~pass.lookup
\* C22's case: a dynamic pass after the epoch, on an extrusion of 5 without base
\* height whose reference is NONE at that time and not at the epoch, over options
\* that held other values before.
C22_Witness ==
  /\ ResolvedPass /\ pass.kind = "dynamic" /\ pass.time # MINIMUM_VALUE
  /\ stripe.height = None
  /\ SampleAt("extrudedHeight", pass.time) = Some(5)
  /\ SampleAt("extrudedHeightReference", pass.time) = Some("NONE")
  /\ SampleAt("extrudedHeightReference", MINIMUM_VALUE) # Some("NONE")
  /\ options.vertexFormat = Leftover.vertexFormat
  /\ options.height = Some(0) /\ options.extrudedHeight = Some(5)
  /\ ~pass.lookup

\* C23: a pass stores the height (the sampled one, or 0 by the rule of C10) unchanged
\* when heightReference is NONE or RELATIVE_TO_GROUND and as the clamp sentinel when
\* it is CLAMP_TO_GROUND; an undefined height stays undefined.  extrudedHeight is
\* resolved against extrudedHeightReference by the same rule: it is stored unchanged
\* for NONE and RELATIVE_TO_GROUND, and for CLAMP_TO_GROUND the rule yields the
\* sentinel, which sends the pass to the terrain query.
C23_HeightAgainstReference ==
  /\ \A v \in {None, Some(0), Some(5)} : \A r \in HeightReferences :
       getGeometryExtrudedHeight(v, Some(r)) = getGeometryHeight(v, Some(r))
  /\ ResolvedPass =>
       LET t == pass.time
           h == BaseHeightAt(t)
           hr == ReferenceAt("heightReference", t)
           e == SampleAt("extrudedHeight", t)
           er == ReferenceAt("extrudedHeightReference", t)
       IN /\ hr \in {Some("NONE"), Some("RELATIVE_TO_GROUND")} => options.height = h
          /\ defined(SampleAt("height", t)) => h = SampleAt("height", t)
          /\ (hr = Some("CLAMP_TO_GROUND") /\ defined(h)) =>
               options.height = Some(CLAMP_TO_GROUND)
          /\ ~defined(h) => options.height = None
          /\ er \in {Some("NONE"), Some("RELATIVE_TO_GROUND")} => options.extrudedHeight = e
          /\ (er = Some("CLAMP_TO_GROUND") /\ defined(e)) =>
               (getGeometryExtrudedHeight(e, er) = Some(CLAMP_TO_GROUND) /\ pass.lookup)
          /\ ~defined(e) => options.extrudedHeight = None
\* C23's case: a pass on a height of 7 clamped to the ground stored the sentinel.
C23_Witness ==
  /\ ResolvedPass
  /\ SampleAt("height", pass.time) = Some(7)
  /\ ReferenceAt("heightReference", pass.time) = Some("CLAMP_TO_GROUND")
  /\ options.height = Some(CLAMP_TO_GROUND)

C25_StaticOptionsFrame ==
  /\ []((~upd.dynamic /\ pass.kind = "static" /\ ~pass.error) =>
          GeometryFieldsAt(MINIMUM_VALUE))
  /\ [][~upd.dynamic => (options' = options /\ pass' = pass /\ upd' = upd)]_vars
  /\ []((BuiltInstance /\ ~upd.dynamic) => Inst.geometry = options)
\* C25's case: a static shape whose height reference and show differ between the
\* epoch and the time of an update that built an instance: the options are those of
\* the epoch, the show attribute is that of the update's time.
C25_Witness ==
  /\ last.op = "update" /\ BuiltInstance /\ ~upd.dynamic
  /\ CallTime # MINIMUM_VALUE
  /\ pass.kind = "static" /\ pass.time = MINIMUM_VALUE
  /\ ReferenceAt("heightReference", CallTime) # ReferenceAt("heightReference", MINIMUM_VALUE)
  /\ GeometryFieldsAt(MINIMUM_VALUE)
  /\ Inst.geometry = options
  /\ Inst.show # showAttribute(MINIMUM_VALUE, entity, upd)

\* C26: a pass run once more on the same descriptor, at the same time for the dynamic
\* one, leaves the options as the first run left them, whatever they held before
\* the first run: re-running either pass on the options of any state after running
\* it changes nothing, and a call or a tick that repeats the last one at the same
\* time leaves options and pass record unchanged.
C26_ResolutionIsIdempotent ==
  /\ [](\A t \in Times :
          LET once == setOptionsCall(stripe, t, options)
          IN setOptionsCall(stripe, t, once.options) = once)
  /\ []((defined(stripe.positions) /\ defined(stripe.width)) =>
          LET once == setStaticOptionsCall(stripe, upd.materialProperty, options)
          IN setStaticOptionsCall(stripe, upd.materialProperty, once.options) = once)
  /\ [][(/\ last.op \in {"setStaticOptions", "setOptions", "update"}
          /\ last'.op = last.op /\ last'.time = last.time) =>
           (options' = options /\ pass' = pass)]_vars
\* C26's case: a dynamic pass after the epoch replaced leftovers of every field and
\* resolved a clamped extrusion under its own rectangle; the same pass run again
\* gives the same options.
C26_Witness ==
  /\ last.op = "setOptions" /\ ResolvedPass /\ pass.time # MINIMUM_VALUE
  /\ pass.lookup
  /\ options.vertexFormat = Leftover.vertexFormat
  /\ \A f \in {"positions", "width", "granularity", "cornerType", "height",
                "extrudedHeight", "offsetAttribute"} : options[f] # Leftover[f]
  /\ setOptionsCall(stripe, pass.time, options).options = options

\* One of the eight samples a pass takes at time t throws.
PassSamplerFailsAt(t) ==
  \E f \in {"height", "heightReference", "extrudedHeight", "extrudedHeightReference",
             "positions", "width", "granularity", "cornerType"} : Fails(stripe[f], t)
\* The operation ended in what the sampler threw, after running each method once.
SamplerErrorAfter(calls) ==
  /\ last.kind = Failed[1] /\ last.instance = None /\ last.calls = calls
\* C27: a sampler that throws while setStaticOptions, setOptions or
\* createFillGeometryInstance (or the dynamic isHidden before it) takes its sample
\* ends the operation in the sampler's own error: the operation does not return,
\* does not report a hidden shape, builds no instance, and runs no method a second
\* time; an operation whose samplers all return never ends in that error.
C27_SamplerFailurePropagates ==
  /\ last.op = "setStaticOptions" =>
        IF PassSamplerFailsAt(MINIMUM_VALUE)
        THEN SamplerErrorAfter(<<"setStaticOptions">>) /\ pass.error
        ELSE last.kind # Failed[1]
  /\ last.op = "setOptions" =>
        IF PassSamplerFailsAt(CallTime)
        THEN SamplerErrorAfter(<<"setOptions">>) /\ pass.error
        ELSE last.kind # Failed[1]
  /\ (last.op = "update" /\ upd.dynamic /\ upd.fillEnabled) =>
        IF PassSamplerFailsAt(CallTime)
        THEN SamplerErrorAfter(<<"setOptions">>) /\ pass.error
        ELSE IF pass.error THEN last.kind \notin {Failed[1], "none", "instance"}
        ELSE IF hiddenSamplerFails(entity, stripe, CallTime, options)
        THEN SamplerErrorAfter(<<"setOptions", "isHidden">>)
        ELSE IF Dynamic_isHidden(entity, stripe, CallTime, options)
        THEN last.kind = "none"
        ELSE IF attributeSamplerFails(CallTime, entity, upd)
        THEN SamplerErrorAfter(<<"setOptions", "isHidden", "createFillGeometryInstance">>)
        ELSE last.kind # Failed[1]
\* C27's case: a tick whose pass had written the positions of its time when the
\* width sampler threw; the tick ended in that error with the earlier width kept.
C27_Witness ==
  /\ last.op = "update" /\ last.kind = Failed[1]
  /\ Fails(stripe.width, CallTime) /\ ~Fails(stripe.positions, CallTime)
  /\ options.positions = SampleAt("positions", CallTime)
  /\ options.width = Leftover.width

\* The eight samples a pass takes are at time t what they are at the epoch.
SamplesAsAtEpoch(t) ==
  /\ \A f \in {"positions", "width", "granularity", "cornerType", "height",
                "extrudedHeight"} : SampleAt(f, t) = SampleAt(f, MINIMUM_VALUE)
  /\ \A f \in {"heightReference", "extrudedHeightReference"} :
       ReferenceAt(f, t) = ReferenceAt(f, MINIMUM_VALUE)
\* C28: on a descriptor with positions and width, whenever the samples at a time t
\* equal the samples at the epoch, the static pass and the dynamic pass at t store
\* the same positions, width, granularity, cornerType, height, extrudedHeight and
\* offsetAttribute into the same options, and end the same way.
C28_StaticAndDynamicAgree ==
  \A t \in Times :
    (defined(stripe.positions) /\ defined(stripe.width) /\ SamplesAsAtEpoch(t)) =>
      LET static == setStaticOptionsCall(stripe, upd.materialProperty, options)
          dynamic == setOptionsCall(stripe, t, options)
      IN /\ \A f \in {"positions", "width", "granularity", "cornerType", "height",
                       "extrudedHeight", "offsetAttribute"} :
              static.options[f] = dynamic.options[f]
         /\ static.thrown = dynamic.thrown
         /\ static.pass.lookup = dynamic.pass.lookup
\* C28's case: a dynamic pass after the epoch on a stripe whose samples all vary and
\* are at that time what they are at the epoch; it defaulted the base height and
\* resolved the clamped extrusion, and left what the static pass would leave.
C28_Witness ==
  /\ last.op = "setOptions" /\ ResolvedPass /\ CallTime # MINIMUM_VALUE
  /\ defined(stripe.positions) /\ ~Get(stripe.positions).isConstant
  /\ defined(stripe.extrudedHeight) /\ ~Get(stripe.extrudedHeight).isConstant
  /\ SamplesAsAtEpoch(CallTime) /\ ~SamplesAsAtEpoch(1)
  /\ pass.lookup /\ options.height = Some(0)
  /\ \A f \in {"positions", "width", "granularity", "cornerType", "height",
                "extrudedHeight", "offsetAttribute"} :
       options[f] = setStaticOptionsCall(stripe, upd.materialProperty, Leftover).options[f]

\* A pass ran last and every sampler it called returned.
PassSampledAll ==
  /\ last.op \in {"setStaticOptions", "setOptions", "update"}
  /\ ~PassSamplerFailsAt(pass.time)
\* The pass made the terrain query: it reached the query and the rectangle it asks
\* for could be computed.
LookupPerformed == pass.lookup /\ ~pass.error
C30_ColorAttributeMatchesVertexFormat ==
  (BuiltInstance /\ ~upd.dynamic) =>
    /\ defined(Inst.color) <=> Inst.geometry.vertexFormat = Some("PerInstanceColor")
    /\ defined(Inst.color) <=> isColorMaterial(upd.materialProperty)
    /\ Inst.geometry.vertexFormat = options.vertexFormat

\* C30's case: after the material was changed to one that is not a plain colour, the
\* static pass stored the textured format and the instance built from it carries
\* no color attribute.
C30_Witness ==
  /\ BuiltInstance /\ ~upd.dynamic /\ pass.kind = "static" /\ nChanges >= 1
  /\ ~isColorMaterial(upd.materialProperty)
  /\ Inst.geometry.vertexFormat = Some("Textured")
  /\ ~defined(Inst.color)

====
